---- MODULE Spec2Model ----
(***************************************************************************)
(* Model of joule-profiler-benchmark.py: the frequency sweep generator     *)
(* (yield_every), the profiler invocation (run_joule_profiler), the trial  *)
(* collection loop (generate_iters) and the reduction of the collected     *)
(* table (df_removed_unused_columns, df_group_by_expected_frequency,       *)
(* df_aggregate).                                                          *)
(*                                                                         *)
(* Numbers that polars holds as floats are modelled as exact fractions     *)
(* [num, den] in lowest terms; den = 0 stands for the float +inf or -inf   *)
(* that a division by zero produces.                                       *)
(***************************************************************************)
EXTENDS Integers, Sequences, FiniteSets, TLC

VARIABLES
    env,        \* what the external profiler may do: [deltas, faults]
    gens,       \* the generator objects: name -> [step, n, i, done]
    calls,      \* number of top-level calls started so far
    pc,         \* position of the single thread of control
    gi,         \* frame of generate_iters
    rj,         \* frame of run_joule_profiler
    dirs,       \* temporary directories that exist: set of [name, owner]
    csv,        \* results.csv files that exist: set of [name, owner, delta]
    log,        \* the profiler invocations of the current top-level call, in order
    ret,        \* what the last top-level call returned or raised
    df,         \* the notebook's table after the collection cell
    swept,      \* the generator objects a completed collection has iterated
    grouped,    \* the notebook's table after the grouping cell
    agg,        \* the notebook's table after the aggregation cell
    swaps,      \* number of row exchanges applied to df
    seqGen,     \* the generator under test (sequence specification)
    seqOut,     \* the values it has yielded so far
    seqEnd      \* how the iteration ended: "", "stop" or "ValueError"

vars == <<env, gens, calls, pc, gi, rj, dirs, csv, log, ret, df, swept, grouped,
          agg, swaps, seqGen, seqOut, seqEnd>>

collVars == <<env, gens, calls, pc, gi, rj, dirs, csv, log, ret, df, swept>>
aggVars  == <<grouped, agg, swaps>>
seqVars  == <<seqGen, seqOut, seqEnd>>

----------------------------------------------------------------------------
(* Bounds of the model *)

MaxCount  == 1      \* counts of the notebook's own sweep: 0..MaxCount
MaxIter   == 2      \* nb_iterations: 1..MaxIter
MaxCalls  == 2      \* top-level calls in one session
SeqMaxStep  == 3    \* sequence specification: steps -SeqMaxStep..SeqMaxStep
SeqMaxCount == 4    \* sequence specification: counts 0..SeqMaxCount
AggMaxCount == 2    \* reduction specification: counts 0..AggMaxCount
AggMaxIter  == 3    \* reduction specification: nb_iterations 1..AggMaxIter
AggMaxRows  == 9    \* reduction specification: rows of the collected table
MaxSwaps    == 1    \* reduction specification: row exchanges before reducing

(* Program constants *)

DEFAULT_NB_POLLING == 30
DEFAULT_STEP == 1000
_MICRO_JOULE_TO_JOULE_RATIO == 1000000
US_PER_MS == 1000

----------------------------------------------------------------------------
(* Exact fractions *)

Abs(x) == IF x < 0 THEN -x ELSE x

RECURSIVE Gcd(_, _)
Gcd(a, b) == IF b = 0 THEN a ELSE Gcd(b, a % b)

\* n / d as a float value: lowest terms, positive denominator; d = 0 gives
\* the infinity of the sign of n (0/0, NaN, is kept as [0, 0]).
Rat(n, d) ==
    IF d = 0
    THEN [num |-> IF n > 0 THEN 1 ELSE IF n < 0 THEN -1 ELSE 0, den |-> 0]
    ELSE LET g == Gcd(Abs(n), Abs(d))
             s == IF d < 0 THEN -1 ELSE 1
         IN  [num |-> s * (n \div g), den |-> s * (d \div g)]

Zero == Rat(0, 1)
IsInf(r) == r.den = 0 /\ r.num # 0
RatAdd(a, b) == Rat(a.num * b.den + b.num * a.den, a.den * b.den)
RatDiv(a, b) == Rat(a.num * b.den, a.den * b.num)
RatOfInt(k) == Rat(k, 1)

RECURSIVE SumRat(_)
SumRat(s) == IF s = <<>> THEN Zero ELSE RatAdd(Head(s), SumRat(Tail(s)))

\* pl.mean over the values of one column of one group, in row order
\* (a reduction that keeps the first value of the group instead)
MeanBroken(s) == Head(s)
Mean(s) == RatDiv(SumRat(s), RatOfInt(Len(s)))

----------------------------------------------------------------------------
(* yield_every: a generator over range(0, n * step + 1, step) *)

None == <<>>
Some(v) == <<v>>

yield_every(step, n) == [step |-> step, n |-> n, i |-> 0, done |-> FALSE]

\* range membership of the next index: ascending ranges stop below `stop`,
\* descending ranges stop above it
\* (a range that includes its stop value instead)
RangeHasInclusive(i, stop, step) == IF step > 0 THEN i <= stop ELSE i >= stop
RangeHas(i, stop, step) == IF step > 0 THEN i < stop ELSE i > stop

\* next(g): [kind, value, g] with kind "yield", "stop" (StopIteration) or
\* "ValueError" (range() arg 3 must not be zero, raised by the first next)
GenNext(g) ==
    IF g.done THEN [kind |-> "stop", value |-> 0, g |-> g]
    ELSE IF g.step = 0
    THEN [kind |-> "ValueError", value |-> 0, g |-> [g EXCEPT !.done = TRUE]]
    ELSE IF RangeHas(g.i, g.n * g.step + 1, g.step)
    THEN [kind |-> "yield", value |-> g.i, g |-> [g EXCEPT !.i = g.i + g.step]]
    ELSE [kind |-> "stop", value |-> 0, g |-> [g EXCEPT !.done = TRUE]]

\* hz_to_s: 0 if not hz or hz <= 0 else 1 / hz
hz_to_s(hz) ==
    IF hz = None \/ hz[1] = 0 \/ hz[1] <= 0 THEN Zero ELSE Rat(1, hz[1])

----------------------------------------------------------------------------
(* The external world: the profiler subprocess and the temporary directory *)

TmpNames == {"tmpA", "tmpB"}
StderrTexts == {"rapl: permission denied", "workload failed"}
ExitCodes == {0, 1}

GenDefault == "DEFAULT_POLLING_FUNCTION"
GenCell == "_polling_function"

\* one element of the argument vector handed to subprocess.run
Str(text) == [kind |-> "str", text |-> text, num |-> 0, den |-> 1, dir |-> ""]
StrOfNumber(r) ==
    [kind |-> "number", text |-> "", num |-> r.num, den |-> r.den, dir |-> ""]
StrOfPath(dir, file) ==
    [kind |-> "path", text |-> file, num |-> 0, den |-> 1, dir |-> dir]

JOULE_PROFILER == Str("./joule-profiler/target/debug/joule-profiler")
FlagPolling == Str("--rapl-polling")
Separator == Str("--")
NbodyCommand == <<Str("python3"), Str("nbody.py"), Str("nbody_value")>>
ExtraArgChoices == {<<>>, <<Str("--extra")>>}
PollingChoices == {None, Some(0), Some(-5), Some(1), Some(4), Some(1000)}

\* the command line of run_joule_profiler, after rapl_polling == 0 has been
\* replaced by None
\* (a command line that passes the polling flag unconditionally instead)
BuildCmdAlwaysFlag(command, rapl_polling, extra_args, csv_path) ==
    <<Str("sudo"), Str("-S"), JOULE_PROFILER, Str("simple"), Str("--csv"),
      Str("--jouleit-file"), csv_path>>
    \o <<FlagPolling, StrOfNumber(hz_to_s(rapl_polling))>>
    \o extra_args
    \o <<Separator>> \o command
BuildCmd(command, rapl_polling, extra_args, csv_path) ==
    <<Str("sudo"), Str("-S"), JOULE_PROFILER, Str("simple"), Str("--csv"),
      Str("--jouleit-file"), csv_path>>
    \o (IF rapl_polling # None
        THEN <<FlagPolling, StrOfNumber(hz_to_s(rapl_polling))>>
        ELSE <<>>)
    \o extra_args
    \o <<Separator>> \o command

\* tempfile.TemporaryDirectory().cleanup(): the directory and all it holds
\* (a cleanup that removes nothing instead)
CleanupLeaks(set, name) == set
Cleanup(set, name) == {x \in set : x.name # name}

\* the single row the profiler writes to results.csv; `run` is the model's
\* provenance column (which invocation wrote the file), carried through the
\* tables like any other numeric column
CsvRow(file) ==
    [command |-> "python3 nbody.py nbody_value",
     exit_code |-> Zero,
     CORE_0 |-> RatOfInt(2500000),
     measure_count |-> RatOfInt(10),
     duration_ms |-> RatOfInt(20),
     measure_delta |-> RatOfInt(file.delta),
     run |-> RatOfInt(file.owner[2])]

NoFrame == [active |-> FALSE]
\* the outcome of a top-level call: `by` the function called, `gen` the
\* generator object it was given
NoRet == [kind |-> "none", by |-> "", gen |-> "", error |-> "", stderr |-> "",
          table |-> <<>>]
Ok(by, gen, table) ==
    [kind |-> "ok", by |-> by, gen |-> gen, error |-> "", stderr |-> "",
     table |-> table]
Raise(by, gen, error, stderr) ==
    [kind |-> "error", by |-> by, gen |-> gen, error |-> error,
     stderr |-> stderr, table |-> <<>>]

\* subprocess.run(..., check=True) raises CalledProcessError on a non-zero status
\* (check=False instead)
SubprocessRaisesNever(code) == FALSE
SubprocessRaises(code) == code # 0

\* where control goes when run_joule_profiler raises: neither generate_iters
\* nor the notebook catches anything, so the top-level call ends
\* (a collection that skips the failed trial instead)
AfterRaiseSkipsTrial(caller) == IF caller = "generate_iters" THEN "for_iter" ELSE "idle"
AfterRaise(caller) == "idle"

----------------------------------------------------------------------------
(* run_joule_profiler *)

\* Entry of run_joule_profiler up to the start of subprocess.run: normalise
\* rapl_polling, create the temporary directory, build the command line.
RunEnter(caller, callNo, command, rapl_polling_arg, extra_args) ==
    \E name \in TmpNames \ {d.name : d \in dirs} :
        LET rapl_polling == IF rapl_polling_arg = Some(0) THEN None
                            ELSE rapl_polling_arg
            before == IF caller = "top" THEN <<>> ELSE log
            id == <<callNo, Len(before) + 1>>
            csv_path == StrOfPath(name, "results.csv")
        IN  /\ log' = Append(before,
                             [polling |-> rapl_polling_arg,
                              k |-> IF caller = "top" THEN 0 ELSE gi.k,
                              events |-> <<"mkdtemp", "spawn">>,
                              exit |-> -1,
                              stderr |-> "",
                              read |-> None])
            /\ rj' = [active |-> TRUE, caller |-> caller, id |-> id,
                      arg |-> rapl_polling_arg,
                      rapl_polling |-> rapl_polling,
                      extra_args |-> extra_args, command |-> command,
                      tmpdir |-> name,
                      cmd |-> BuildCmd(command, rapl_polling, extra_args, csv_path)]
            /\ dirs' = dirs \cup {[name |-> name, owner |-> id]}
            /\ pc' = "subprocess"

TopFunction == IF rj.caller = "top" THEN "run_joule_profiler" ELSE "generate_iters"
TopGen == IF rj.caller = "top" THEN "" ELSE gi.gen

\* an exception leaving run_joule_profiler
Propagate(error, stderr) ==
    LET to == AfterRaise(rj.caller)
    IN  /\ pc' = to
        /\ IF to = "idle"
           THEN /\ gi' = NoFrame
                /\ ret' = Raise(TopFunction, TopGen, error, stderr)
           ELSE /\ gi' = [gi EXCEPT !.k = @ + 1]
                /\ ret' = ret

\* the last log entry, extended by what the invocation did next
Logged(events, exit, stderr, read) ==
    [log EXCEPT ![Len(log)] =
        [@ EXCEPT !.events = @ \o events, !.exit = exit, !.stderr = stderr,
                  !.read = read]]

\* a direct call from the notebook
CallRun(rapl_polling, extra_args) ==
    /\ pc = "idle"
    /\ calls < env.maxCalls
    /\ calls' = calls + 1
    /\ RunEnter("top", calls + 1, NbodyCommand, rapl_polling, extra_args)
    /\ ret' = NoRet
    /\ UNCHANGED <<env, gens, gi, csv, df, swept>>
    /\ UNCHANGED aggVars /\ UNCHANGED seqVars

\* subprocess.run(cmd, check=True, stdout=PIPE, stderr=PIPE) returns or raises
\* CalledProcessError; the exception leaves the with block, which removes the
\* directory, and then every caller up to the notebook
ProcExit ==
    /\ pc = "subprocess"
    /\ \E code \in ExitCodes, wrote \in BOOLEAN, delta \in env.deltas,
          text \in StderrTexts :
        /\ env.faults \/ (code = 0 /\ wrote)
        /\ LET written == IF wrote
                          THEN {[name |-> rj.tmpdir, owner |-> rj.id, delta |-> delta]}
                          ELSE {}
           IN  IF ~SubprocessRaises(code)
               THEN /\ csv' = csv \cup written
                    /\ log' = Logged(<<"exit">>, code, "", None)
                    /\ pc' = "read_csv"
                    /\ UNCHANGED <<dirs, rj, gi, ret>>
               ELSE /\ csv' = Cleanup(csv \cup written, rj.tmpdir)
                    /\ dirs' = Cleanup(dirs, rj.tmpdir)
                    /\ log' = Logged(<<"exit", "cleanup">>, code, text, None)
                    /\ Propagate("CalledProcessError", text)
                    /\ rj' = NoFrame
    /\ UNCHANGED <<env, gens, calls, df, swept>>
    /\ UNCHANGED aggVars /\ UNCHANGED seqVars

\* pl.read_csv(csv_path, separator=";") inside the with block, then the block's
\* exit, then the return into the caller (generate_iters appends the result
\* and sleeps) or the propagation of the read error
ReadCsv ==
    /\ pc = "read_csv"
    /\ LET files == {f \in csv : f.name = rj.tmpdir}
       IN  /\ csv' = Cleanup(csv, rj.tmpdir)
           /\ dirs' = Cleanup(dirs, rj.tmpdir)
           /\ rj' = NoFrame
           /\ IF files = {}
              THEN /\ log' = Logged(<<"read_failed", "cleanup">>, log[Len(log)].exit, "", None)
                   /\ Propagate("FileNotFoundError", "")
              ELSE \E f \in files :
                   /\ log' = Logged(<<"read", "cleanup">>, log[Len(log)].exit, "", Some(f.owner))
                   /\ IF rj.caller = "top"
                      THEN /\ ret' = Ok("run_joule_profiler", "", <<CsvRow(f)>>)
                           /\ gi' = gi
                           /\ pc' = "idle"
                      ELSE /\ ret' = ret
                           /\ gi' = [gi EXCEPT !.iter_dfs = Append(@, <<CsvRow(f)>>),
                                               !.k = @ + 1]
                           /\ pc' = "for_iter"
    /\ UNCHANGED <<env, gens, calls, df, swept>>
    /\ UNCHANGED aggVars /\ UNCHANGED seqVars

----------------------------------------------------------------------------
(* generate_iters *)

RECURSIVE Concat(_)
\* pl.concat over a list of tables
Concat(tables) ==
    IF tables = <<>> THEN <<>> ELSE Head(tables) \o Concat(Tail(tables))

\* with_columns(pl.lit(polling).alias("expected_frequency")) and
\* with_columns((pl.col("measure_delta") / 1000).alias("measure_delta"))
TagRow(row, polling) ==
    [c \in DOMAIN row \cup {"expected_frequency"} |->
        IF c = "expected_frequency" THEN polling
        ELSE IF c = "measure_delta" THEN RatDiv(row[c], RatOfInt(US_PER_MS))
        ELSE row[c]]

TagTable(table, polling) == [j \in 1..Len(table) |-> TagRow(table[j], polling)]

\* the entry of generate_iters: dfs = []; the notebook variable that will
\* take the result holds nothing while the call runs
EnterGenerateIters(gen, nb_iterations) ==
    /\ pc = "idle"
    /\ calls < env.maxCalls
    /\ calls' = calls + 1
    /\ gi' = [active |-> TRUE, gen |-> gen, nb_iterations |-> nb_iterations,
              polling |-> 0, k |-> 0, iter_dfs |-> <<>>, dfs |-> <<>>,
              yielded |-> <<>>]
    /\ log' = <<>>
    /\ ret' = NoRet
    /\ pc' = "for_polling"
    /\ df' = <<>>
    /\ UNCHANGED <<env, rj, dirs, csv>>
    /\ UNCHANGED aggVars /\ UNCHANGED seqVars

\* a notebook cell: _polling_function = yield_every(step, n), then
\* generate_iters(nb_iterations=..., polling_function=_polling_function)
CellSweep ==
    \E sweep \in env.sweeps :
        /\ gens' = [g \in DOMAIN gens \cup {GenCell} |->
                        IF g = GenCell THEN yield_every(sweep[1], sweep[2])
                        ELSE gens[g]]
        /\ swept' = swept \ {GenCell}
        /\ EnterGenerateIters(GenCell, sweep[3])

\* generate_iters(nb_iterations=...) with the default polling_function; its 31
\* frequency points are swept with one trial each
DefaultSweepIters == {1}

CallDefault ==
    \E nb_iterations \in DefaultSweepIters :
        /\ UNCHANGED <<gens, swept>>
        /\ EnterGenerateIters(GenDefault, nb_iterations)

\* generate_iters called again with a generator object made earlier
CallReuse ==
    \E nb_iterations \in 1..MaxIter :
        /\ GenCell \in DOMAIN gens
        /\ UNCHANGED <<gens, swept>>
        /\ EnterGenerateIters(GenCell, nb_iterations)

\* for polling in tqdm(polling_function): the next value, or the end of the
\* loop and return pl.concat(dfs), which raises on an empty list
ForPolling ==
    /\ pc = "for_polling"
    /\ LET r == GenNext(gens[gi.gen])
       IN  /\ gens' = [gens EXCEPT ![gi.gen] = r.g]
           /\ IF r.kind = "yield"
              THEN /\ gi' = [gi EXCEPT !.polling = r.value, !.k = 0,
                                       !.iter_dfs = <<>>,
                                       !.yielded = Append(@, r.value)]
                   /\ pc' = "for_iter"
                   /\ UNCHANGED <<ret, df, swept>>
              ELSE /\ gi' = NoFrame
                   /\ pc' = "idle"
                   /\ IF r.kind = "ValueError" \/ gi.dfs = <<>>
                      THEN /\ ret' = Raise("generate_iters", gi.gen, "ValueError", "")
                           /\ UNCHANGED <<df, swept>>
                      ELSE /\ ret' = Ok("generate_iters", gi.gen, Concat(gi.dfs))
                           /\ df' = Concat(gi.dfs)
                           /\ swept' = swept \cup {gi.gen}
    /\ UNCHANGED <<env, calls, rj, dirs, csv, log>>
    /\ UNCHANGED aggVars /\ UNCHANGED seqVars

\* for _ in range(nb_iterations): the call of run_joule_profiler, or the end
\* of the loop: concatenate, tag and convert the trials of this frequency
\* (an inner loop that runs one trial instead)
InnerLoopRunsOnce(k, nb_iterations) == k < 1
InnerLoopRuns(k, nb_iterations) == k < nb_iterations

ForIter ==
    /\ pc = "for_iter"
    /\ IF InnerLoopRuns(gi.k, gi.nb_iterations)
       THEN /\ RunEnter("generate_iters", calls, NbodyCommand, Some(gi.polling), <<>>)
            /\ UNCHANGED <<gi, csv>>
       ELSE /\ gi' = [gi EXCEPT !.dfs =
                        Append(@, TagTable(Concat(gi.iter_dfs), gi.polling))]
            /\ pc' = "for_polling"
            /\ UNCHANGED <<rj, dirs, csv, log>>
    /\ UNCHANGED <<env, gens, calls, ret, df, swept>>
    /\ UNCHANGED aggVars /\ UNCHANGED seqVars

----------------------------------------------------------------------------
(* The reduction: the notebook cells after the collection *)

Restrict(row, cols) == [c \in cols |-> row[c]]

\* df.drop(["command", "exit_code"])
df_removed_unused_columns(table) ==
    [j \in 1..Len(table) |->
        Restrict(table[j], DOMAIN table[j] \ {"command", "exit_code"})]

\* the values of column c in the rows of group f, in row order
GroupColumn(table, f, c) ==
    LET rows == SelectSeq(table, LAMBDA r : r["expected_frequency"] = f)
    IN  [j \in 1..Len(rows) |-> rows[j][c]]

\* df.group_by("expected_frequency").agg([pl.mean(c) for every other column]);
\* polars leaves the order of the groups unspecified: the result is a set
df_group_by_expected_frequency(table) ==
    LET keys == {table[j]["expected_frequency"] : j \in 1..Len(table)}
        cols == UNION {DOMAIN table[j] : j \in 1..Len(table)}
    IN  {[c \in cols |->
            IF c = "expected_frequency" THEN f
            ELSE Mean(GroupColumn(table, f, c))] : f \in keys}

\* the first with_columns of df_aggregate: 1000 / measure_delta
RealFrequencyOf(row) == RatDiv(RatOfInt(1000), row["measure_delta"])

\* the second with_columns: when(expected_frequency == 0).then(0).otherwise(...)
\* (no override instead)
ZeroOverrideMissing(row, real_frequency) == real_frequency
ZeroOverride(row, real_frequency) ==
    IF row["expected_frequency"] = 0 THEN Zero ELSE real_frequency

\* one row through df_aggregate: select, derive, override, drop
AggregateRow(row) ==
    LET selected == Restrict(row, {"expected_frequency", "CORE_0", "measure_count",
                                   "duration_ms", "measure_delta"})
    IN  [expected_frequency |-> selected["expected_frequency"],
         CORE_0 |-> selected["CORE_0"],
         measure_delta |-> selected["measure_delta"],
         real_frequency |-> ZeroOverride(selected, RealFrequencyOf(selected)),
         core_energy |-> RatDiv(selected["CORE_0"],
                                RatOfInt(_MICRO_JOULE_TO_JOULE_RATIO))]

df_aggregate(table) == {AggregateRow(row) : row \in table}

\* Input of the reduction: the same collected rows in another order.
\* the rows j and j + 1 of a table exchanged
SwapRows(table, j) ==
    [x \in 1..Len(table) |->
        IF x = j THEN table[j + 1] ELSE IF x = j + 1 THEN table[j] ELSE table[x]]

\* the collected rows reach the reduction in another order
Shuffle ==
    /\ pc = "idle"
    /\ ret.kind = "ok"
    /\ grouped = {}
    /\ swaps < MaxSwaps
    /\ \E j \in 1..(Len(df) - 1) : df' = SwapRows(df, j)
    /\ swaps' = swaps + 1
    /\ UNCHANGED <<env, gens, calls, pc, gi, rj, dirs, csv, log, ret, swept,
                   grouped, agg>>
    /\ UNCHANGED seqVars

\* the cell computing high_frequency_df
CellGroup ==
    /\ pc = "idle"
    /\ ret.kind = "ok"
    /\ grouped = {}
    /\ grouped' = df_group_by_expected_frequency(df_removed_unused_columns(df))
    /\ UNCHANGED <<agg, swaps>>
    /\ UNCHANGED collVars /\ UNCHANGED seqVars

\* the cell computing high_frequency_df_agg
CellAggregate ==
    /\ grouped # {}
    /\ agg = {}
    /\ agg' = df_aggregate(grouped)
    /\ UNCHANGED <<grouped, swaps>>
    /\ UNCHANGED collVars /\ UNCHANGED seqVars

----------------------------------------------------------------------------
(* The sequence on its own: one next() per step *)

SeqNext ==
    /\ seqEnd = ""
    /\ LET r == GenNext(seqGen)
       IN  /\ seqGen' = r.g
           /\ seqOut' = IF r.kind = "yield" THEN Append(seqOut, r.value) ELSE seqOut
           /\ seqEnd' = IF r.kind = "yield" THEN "" ELSE r.kind
    /\ UNCHANGED collVars /\ UNCHANGED aggVars

----------------------------------------------------------------------------
(* Specifications *)

\* the steps of the notebook's own sweeps: yield_every(1000, ...) and
\* yield_every(10, ...)
CellSteps == {10, DEFAULT_STEP}

SessionSweeps ==
    {<<step, n, nb>> : step \in CellSteps, n \in 0..MaxCount, nb \in 1..MaxIter}

ReductionSweeps ==
    {s \in {<<DEFAULT_STEP, n, nb>> : n \in 0..AggMaxCount, nb \in 1..AggMaxIter} :
        (s[2] + 1) * s[3] <= AggMaxRows}

InitCommon ==
    /\ gens = [g \in {GenDefault} |-> yield_every(DEFAULT_STEP, DEFAULT_NB_POLLING)]
    /\ calls = 0
    /\ pc = "idle"
    /\ gi = NoFrame
    /\ rj = NoFrame
    /\ dirs = {}
    /\ csv = {}
    /\ log = <<>>
    /\ ret = NoRet
    /\ df = <<>>
    /\ swept = {}
    /\ grouped = {}
    /\ agg = {}
    /\ swaps = 0

SeqIdle ==
    /\ seqGen = yield_every(1, 0)
    /\ seqOut = <<>>
    /\ seqEnd = "unused"

\* a notebook session: any calls, a profiler that may fail
Init ==
    /\ env = [deltas |-> {2000}, faults |-> TRUE, sweeps |-> SessionSweeps,
              maxCalls |-> MaxCalls]
    /\ InitCommon
    /\ SeqIdle

Next ==
    \/ CellSweep
    \/ CallDefault
    \/ CallReuse
    \/ \E rapl_polling \in PollingChoices, extra_args \in ExtraArgChoices :
          CallRun(rapl_polling, extra_args)
    \/ ForPolling
    \/ ForIter
    \/ ProcExit
    \/ ReadCsv

Spec == Init /\ [][Next]_vars

\* one sweep with a profiler that succeeds, then the reduction cells
InitAgg ==
    /\ env \in {[deltas |-> d, faults |-> FALSE, sweeps |-> ReductionSweeps,
                 maxCalls |-> 1] : d \in {{0, 2000}, {4000}, {250}}}
    /\ InitCommon
    /\ SeqIdle

NextAgg ==
    \/ CellSweep
    \/ ForPolling
    \/ ForIter
    \/ ProcExit
    \/ ReadCsv
    \/ Shuffle
    \/ CellGroup
    \/ CellAggregate

SpecAgg == InitAgg /\ [][NextAgg]_vars

\* yield_every(step, n) iterated to its end
InitSeq ==
    /\ env = [deltas |-> {2000}, faults |-> FALSE, sweeps |-> {}, maxCalls |-> 0]
    /\ InitCommon
    /\ \E step \in (0 - SeqMaxStep)..SeqMaxStep, n \in 0..SeqMaxCount :
          seqGen = yield_every(step, n)
    /\ seqOut = <<>>
    /\ seqEnd = ""

NextSeq == SeqNext

SpecSeq == InitSeq /\ [][NextSeq]_vars

----------------------------------------------------------------------------
(* Properties *)

Has(events, e) == \E j \in 1..Len(events) : events[j] = e
CountOf(seq, x) == Cardinality({j \in 1..Len(seq) : seq[j] = x})
Last(seq) == seq[Len(seq)]
Finished(entry) == Last(entry.events) = "cleanup"
Failed(entry) == entry.exit \notin {0, -1} \/ Has(entry.events, "read_failed")
Running == pc \in {"subprocess", "read_csv"}

\* C1: inside generate_iters the invocations run one at a time in the nested
\* order: the j-th invocation of a call uses the frequency point yielded
\* ((j - 1) div nb_iterations) + 1-th and is trial (j - 1) mod nb_iterations
\* of it, a frequency point is drawn only when the one before has had all its
\* nb_iterations invocations, every invocation but the newest has ended, and
\* the returned table holds one row per invocation in the order of the
\* invocations.
C1_NestedOrder ==
    /\ gi.active =>
        /\ \A j \in 1..Len(log) :
              /\ log[j].polling = Some(gi.yielded[((j - 1) \div gi.nb_iterations) + 1])
              /\ log[j].k = (j - 1) % gi.nb_iterations
              /\ j < Len(log) => Finished(log[j])
        /\ Len(log) <= gi.nb_iterations * Len(gi.yielded)
        /\ Len(gi.yielded) > 0 => Len(log) >= gi.nb_iterations * (Len(gi.yielded) - 1)
        /\ Running <=> (log # <<>> /\ ~Finished(Last(log)))
    /\ (ret.kind = "ok" /\ ret.by = "generate_iters") =>
        /\ Len(ret.table) = Len(log)
        /\ \A j \in 1..Len(log) :
              /\ Some(ret.table[j]["expected_frequency"]) = log[j].polling
              /\ ret.table[j]["run"] = RatOfInt(j)

\* C1 witness: a returned table with two trials of one frequency followed by
\* a trial of the next frequency.
C1_Witness ==
    /\ ret.kind = "ok" /\ ret.by = "generate_iters"
    /\ \E j \in 1..(Len(ret.table) - 2) :
          /\ ret.table[j]["expected_frequency"] = ret.table[j + 1]["expected_frequency"]
          /\ ret.table[j + 1]["expected_frequency"] # ret.table[j + 2]["expected_frequency"]

\* C2: a failed invocation ends the collection: it is the last invocation of
\* the call, control is back in the notebook, the call has raised the error of
\* that invocation and has returned no table.
C2_FailFast ==
    \A j \in 1..Len(log) :
        Failed(log[j]) =>
            /\ j = Len(log)
            /\ pc = "idle"
            /\ ~gi.active
            /\ ret.kind = "error"
            /\ ret.table = <<>>
            /\ ret.error = IF log[j].exit # 0 THEN "CalledProcessError"
                           ELSE "FileNotFoundError"

\* C2 witness: a collection aborted by its third or later invocation, at a
\* frequency point after the first.
C2_Witness ==
    /\ ret.by = "generate_iters"
    /\ Len(log) >= 3
    /\ Failed(Last(log))
    /\ log[1].polling # Last(log).polling

\* C3: the output file is read only after the subprocess has exited with
\* status 0; after a non-zero status the file is not read, the call raises the
\* error that carries the captured standard error, and no table is returned.
C3_ReadOnlyAfterSuccess ==
    /\ pc = "read_csv" => Last(log).exit = 0
    /\ \A j \in 1..Len(log) :
          /\ (Has(log[j].events, "read") \/ Has(log[j].events, "read_failed")) =>
                /\ log[j].exit = 0
                /\ \E a, b \in 1..Len(log[j].events) :
                      /\ a < b
                      /\ log[j].events[a] = "exit"
                      /\ log[j].events[b] \in {"read", "read_failed"}
          /\ log[j].exit \notin {0, -1} =>
                /\ ~Has(log[j].events, "read")
                /\ ~Has(log[j].events, "read_failed")
                /\ log[j].read = None
                /\ ret.kind = "error"
                /\ ret.error = "CalledProcessError"
                /\ ret.stderr = log[j].stderr
                /\ ret.table = <<>>

\* C3 witness: a direct call whose subprocess exited with status 1 and wrote
\* "workload failed" to standard error.
C3_Witness ==
    /\ ret.by = "run_joule_profiler"
    /\ ret.error = "CalledProcessError"
    /\ ret.stderr = "workload failed"
    /\ Last(log).exit = 1

\* C4: an invocation creates one temporary directory and removes it on every
\* way out; while it runs its directory is the only one that exists and holds
\* nothing written by another invocation; between invocations no directory
\* and no output file exists; a file that is read was written by the
\* invocation that reads it.
C4_ScopedTmpdir ==
    /\ ~Running => dirs = {} /\ csv = {}
    /\ Running =>
          /\ dirs = {[name |-> rj.tmpdir, owner |-> rj.id]}
          /\ \A f \in csv : f.name = rj.tmpdir /\ f.owner = rj.id
          /\ rj.id = <<calls, Len(log)>>
    /\ \A j \in 1..Len(log) :
          /\ CountOf(log[j].events, "mkdtemp") = 1
          /\ CountOf(log[j].events, "cleanup") = IF j < Len(log) \/ ~Running THEN 1 ELSE 0
          /\ log[j].read \in {None, Some(<<calls, j>>)}

\* C4 witness: the second call of a session ended by an unreadable output
\* file, after invocations that succeeded.
C4_Witness ==
    /\ pc = "idle"
    /\ Len(log) >= 3
    /\ Has(log[1].events, "read")
    /\ Has(Last(log).events, "read_failed")
    /\ calls = 2

FlagAt == CHOOSE j \in 1..Len(rj.cmd) : rj.cmd[j] = FlagPolling
SeparatorAt == CHOOSE j \in 1..Len(rj.cmd) : rj.cmd[j] = Separator

\* C5: with a requested frequency of None or 0 the command line holds no
\* polling flag and no number; with a frequency f > 0 it holds the flag once,
\* followed by 1/f, before the extra arguments, the "--" and the workload.
C5_PollingFlag ==
    rj.active =>
        /\ rj.arg \in {None, Some(0)} =>
              /\ CountOf(rj.cmd, FlagPolling) = 0
              /\ \A j \in 1..Len(rj.cmd) : rj.cmd[j].kind # "number"
        /\ (rj.arg # None /\ rj.arg # Some(0) /\ rj.arg[1] > 0) =>
              /\ CountOf(rj.cmd, FlagPolling) = 1
              /\ CountOf(rj.cmd, Separator) = 1
              /\ rj.cmd[FlagAt + 1] = StrOfNumber(Rat(1, rj.arg[1]))
              /\ rj.cmd[FlagAt + 1].num * rj.arg[1] = rj.cmd[FlagAt + 1].den
              /\ FlagAt + 1 < SeparatorAt
              /\ SubSeq(rj.cmd, FlagAt + 2, SeparatorAt - 1) = rj.extra_args
              /\ SubSeq(rj.cmd, SeparatorAt + 1, Len(rj.cmd)) = rj.command

\* C5 witness: an invocation at 4 Hz with extra arguments.
C5_Witness ==
    /\ rj.active
    /\ rj.arg = Some(4)
    /\ rj.extra_args # <<>>
    /\ CountOf(rj.cmd, FlagPolling) = 1

\* C5, the other case: an invocation with a requested frequency of 0.
C5_WitnessDisabled ==
    /\ rj.active
    /\ rj.arg = Some(0)
    /\ CountOf(rj.cmd, FlagPolling) = 0

Multiples(step, n) == [j \in 1..(n + 1) |-> (j - 1) * step]

\* C6 as stated: for every step and every n >= 0 the generator ends normally
\* after yielding exactly 0, step, ..., n * step.
C6_Original ==
    seqEnd \notin {"", "unused"} =>
        /\ seqEnd = "stop"
        /\ seqOut = Multiples(seqGen.step, seqGen.n)

\* C6 amended: for every step >= 1 and every n >= 0 the generator yields
\* exactly 0, step, ..., n * step, in that order, and then ends.
C6_PositiveStep ==
    (seqEnd # "unused" /\ seqGen.step >= 1) =>
        /\ Len(seqOut) <= seqGen.n + 1
        /\ seqOut = SubSeq(Multiples(seqGen.step, seqGen.n), 1, Len(seqOut))
        /\ seqEnd # "" => (seqEnd = "stop" /\ Len(seqOut) = seqGen.n + 1)

\* C6 witness: yield_every(3, 4) iterated to its end.
C6_Witness ==
    /\ seqEnd = "stop"
    /\ seqGen.step = 3
    /\ seqOut = <<0, 3, 6, 9, 12>>

\* C7 as stated: every sweep of a frequency sequence visits all of its
\* count + 1 points, so once a call of generate_iters has iterated a
\* generator object and returned its table, every call that is given this
\* object and reaches the end of its loop (that call and the later ones) has
\* run invocations for every point of the sequence.
C7_Restartable ==
    (/\ ret.by = "generate_iters"
     /\ (ret.kind = "ok" \/ ret.error = "ValueError")
     /\ ret.gen \in swept) =>
        {log[j].polling[1] : j \in 1..Len(log)} =
            {k * gens[ret.gen].step : k \in 0..gens[ret.gen].n}

\* C8 as stated: df_aggregate never returns an infinite real_frequency.
C8_NoInfiniteFrequency ==
    \A row \in agg : ~IsInf(row["real_frequency"])

\* C9: in the table df_aggregate returns, a row requested at frequency 0 has
\* real_frequency 0 whatever its measure_delta, and any other row has the
\* quotient 1000 / measure_delta (the float infinity when measure_delta is 0).
C9_ZeroOverride ==
    \A row \in agg :
        LET rf == row["real_frequency"]
            md == row["measure_delta"]
        IN  /\ row["expected_frequency"] = 0 => rf = Zero
            /\ row["expected_frequency"] # 0 =>
                  IF md.num = 0 THEN IsInf(rf) /\ rf.num > 0
                  ELSE /\ rf.den # 0
                       /\ rf.num * md.num = 1000 * rf.den * md.den

\* C9 witness: a frequency-0 row with a mean delta of 2 ms next to a row whose
\* mean delta of 1 ms gives 1000 Hz.
C9_Witness ==
    /\ \E row \in agg :
          /\ row["expected_frequency"] = 0
          /\ row["measure_delta"] = Rat(2, 1)
          /\ row["real_frequency"] = Zero
    /\ \E row \in agg :
          /\ row["expected_frequency"] # 0
          /\ row["real_frequency"] = Rat(1000, 1)

Reduce(table) ==
    df_aggregate(df_group_by_expected_frequency(df_removed_unused_columns(table)))

TrialsOf(table, f) == {j \in 1..Len(table) : table[j]["expected_frequency"] = f}

\* C10: the reduction of a collected table has exactly one row for each
\* requested frequency 0, step, ..., count * step; it is the same whatever
\* the order of the collected rows; a non-zero frequency whose trials all
\* report the same measure_delta d > 0 gets real_frequency 1000 / d (500 for
\* d = 2), and frequency 0 gets real_frequency 0.
C10_Reduction ==
    agg # {} =>
        LET g == gens[ret.gen]
            points == {k * g.step : k \in 0..g.n}
        IN  /\ {row["expected_frequency"] : row \in agg} = points
            /\ Cardinality(agg) = g.n + 1
            /\ agg = Reduce(ret.table)
            /\ \A row \in agg :
                  /\ row["expected_frequency"] = 0 => row["real_frequency"] = Zero
                  /\ \A d \in {Rat(u, US_PER_MS) : u \in env.deltas \ {0}} :
                        (/\ row["expected_frequency"] # 0
                         /\ \A j \in TrialsOf(ret.table, row["expected_frequency"]) :
                               ret.table[j]["measure_delta"] = d)
                        => /\ row["real_frequency"].num * d.num
                                = 1000 * d.den * row["real_frequency"].den
                           /\ row["real_frequency"].den # 0
                           /\ d = Rat(2, 1) => row["real_frequency"] = Rat(500, 1)

\* C10 witness: the scenario step 1000, count 2, three trials each, all
\* non-zero frequencies at 2 ms, reduced after an exchange of two rows.
C10_Witness ==
    /\ agg # {}
    /\ swaps = 1
    /\ df # ret.table
    /\ Len(df) = 9
    /\ Cardinality(agg) = 3
    /\ \E j \in 1..Len(df) :
          df[j]["expected_frequency"] = 0 /\ df[j]["measure_delta"] = Zero
    /\ \A row \in agg :
          /\ row["expected_frequency"] # 0 => row["real_frequency"] = Rat(500, 1)
          /\ row["expected_frequency"] = 0 => row["measure_delta"] # Zero

====
